---- MODULE Spec2Model ----
(***************************************************************************)
(* Kitchen inventory: the stock-mutation action layer (buyIngredient and   *)
(* the ingredient CRUD operations) running against the Dexie/IndexedDB     *)
(* record store.  Every asynchronous function is cut at its awaits: one    *)
(* action per segment between two awaits.  The spoilage engine, a pure     *)
(* function of an ingredient and a reference instant, is evaluated on      *)
(* ingredients and instants drawn from bounded sets, and so are the list   *)
(* operations built on it.  The ingredients page runs its four handlers on *)
(* the action layer.                                                       *)
(***************************************************************************)
EXTENDS Integers, Sequences, FiniteSets, TLC

(***************************************************************************)
(* Bounds of the model.                                                    *)
(***************************************************************************)
MaxCalls  == 2      \* calls of the action layer that can be in flight together
MaxOps    == 2      \* calls issued in one behaviour
MaxId     == 2      \* identifiers the generator hands out
MaxClock  == 1      \* the last instant of the wall clock
MaxFaults == 1      \* store operations that fail in one behaviour
MaxDay    == 9      \* the last day on which the spoilage engine is evaluated
MaxList   == 3      \* ingredients in the list the page enriches and sorts

(***************************************************************************)
(* JavaScript values.  Every value is a tagged record, so that null,       *)
(* undefined, numbers (NaN and the infinities included) and strings can be *)
(* compared with one another.                                              *)
(***************************************************************************)
Null      == [k |-> "null"]
Undefined == [k |-> "undefined"]
Fin(n)    == [k |-> "fin", v |-> n]
\* The number 2^53 + d, for even d >= 0: from 2^53 on, the numbers (IEEE 754
\* doubles, 53 bits of mantissa) are the even integers
Big(d)    == [k |-> "big", v |-> d]
NaN       == [k |-> "nan", v |-> 0]
PosInf    == [k |-> "inf", v |-> 1]
NegInf    == [k |-> "inf", v |-> -1]
Str(s)    == [k |-> "str", v |-> s]
Iso(t)    == [k |-> "iso", v |-> t]
Bool(b)   == [k |-> "bool", v |-> b]
Arr(s)    == [k |-> "array", v |-> s]
Obj(r)    == [k |-> "object", v |-> r]

\* x <= 0 on numbers: false when x is NaN
NumLeZero(x) ==
    \/ x.k = "fin" /\ x.v <= 0
    \/ x = NegInf

\* x >= 0 on numbers: false when x is NaN
NumGeZero(x) ==
    \/ x.k = "fin" /\ x.v >= 0
    \/ x.k = "big"
    \/ x = PosInf

\* x > 0 on numbers: false when x is NaN
NumGtZero(x) ==
    \/ x.k = "fin" /\ x.v > 0
    \/ x.k = "big"
    \/ x = PosInf

\* Number.isFinite
NumberIsFinite(x) == x.k \in {"fin", "big"}

\* 2^53 + e for an integer e >= 0, rounded to the nearest double: an odd e lies
\* half way between two doubles and goes to the one with the even mantissa
RoundToEven(e) ==
    IF e % 2 = 0 THEN Big(e)
    ELSE IF (e - 1) % 4 = 0 THEN Big(e - 1)
    ELSE Big(e + 1)

\* a + b on numbers; of numbers from 2^53 on, at most one is added to a small
\* non-negative integer
NumAdd(a, b) ==
    IF a.k = "nan" \/ b.k = "nan" THEN NaN
    ELSE IF a.k = "inf" /\ b.k = "inf" THEN (IF a.v = b.v THEN a ELSE NaN)
    ELSE IF a.k = "inf" THEN a
    ELSE IF b.k = "inf" THEN b
    ELSE IF a.k = "big" \/ b.k = "big"
    THEN CASE a.k # b.k -> RoundToEven(a.v + b.v)
    ELSE Fin(a.v + b.v)

\* String.prototype.trim on a string held as a sequence of characters
RECURSIVE TrimLeft(_)
TrimLeft(s) ==
    IF s = <<>> THEN s
    ELSE IF Head(s) = " " THEN TrimLeft(Tail(s)) ELSE s

RECURSIVE TrimRight(_)
TrimRight(s) ==
    IF s = <<>> THEN s
    ELSE IF s[Len(s)] = " " THEN TrimRight(SubSeq(s, 1, Len(s) - 1)) ELSE s

Trim(x) == Str(TrimRight(TrimLeft(x.v)))

(***************************************************************************)
(* The record store: the table db.ingredients, keyed by id.                *)
(***************************************************************************)
Ids == 1..MaxId

EmptyStore == [i \in Ids |-> Undefined]

\* Table.get(id): the record, or undefined
TableGet(table, id) == table[id]

\* An update that inserts a record made of the changes when the key is absent
TableUpdateUpserts(table, id, changes) ==
    [table EXCEPT ![id] =
        [f \in {"id", "name", "unit", "stockQty", "shelfLifeDays", "purchasedAt"} |->
            IF f \in DOMAIN changes THEN changes[f]
            ELSE IF table[id] # Undefined THEN table[id][f]
            ELSE IF f = "id" THEN id
            ELSE Null]]

\* Table.update(id, changes): sets the given fields of an existing record,
\* does nothing when the key is absent
TableUpdate(table, id, changes) ==
    IF table[id] = Undefined THEN table
    ELSE [table EXCEPT ![id] =
            [f \in DOMAIN table[id] |->
                IF f \in DOMAIN changes THEN changes[f] ELSE table[id][f]]]

\* Table.add(record)
TableAdd(table, rec) == [table EXCEPT ![rec.id] = rec]

\* Table.delete(id)
TableDeleteKeeps(table, id) == table

TableDelete(table, id) == [table EXCEPT ![id] = Undefined]

\* What a failing store operation rejects with: Dexie rejects with Error objects
StoreFaults == {[isError |-> TRUE, message |-> "StoreError"]}

NoFault == [isError |-> FALSE, message |-> "none"]


(***************************************************************************)
(* State.                                                                  *)
(***************************************************************************)
VARIABLES
    store,      \* committed contents of db.ingredients: what any reader sees
    txOwner,    \* the call whose 'rw' transaction is running, 0 when none
    work,       \* contents of the table as seen inside the running transaction
    calls,      \* the calls of the action layer, each at one of its awaits
    clock,      \* the last instant read from the wall clock by new Date()
    nextId,     \* the next identifier uuidv4() hands out
    ops,        \* calls issued so far
    faults,     \* store operations that have failed so far
    hist,       \* committed buys, in commit order
    initial,    \* the contents of the table when the behaviour starts
    zone,       \* the time zone of the host: where its UTC offset changes
    args,       \* the arguments of the last evaluation of computeSpoilage
    result,     \* what that evaluation returned, undefined before the first
    previous,   \* what the evaluation before it returned
    rawIngredients, \* the ingredients the page has read from the table
    enriched,   \* enrichAllWithSpoilage of them, undefined before it is made
    sorted,     \* what sortByExpiryUrgency returned for the enriched list
    summary,    \* what getSpoilageSummary returned for the enriched list
    audit,      \* the last derivation of an audit record: input, result, record
    isLoading,  \* the page's isLoading state
    modalState, \* the page's modalState: the open modal and its ingredient
    handlers    \* the page's action handlers, one per call of the action layer

\* The lists derived from the table for display
view == <<rawIngredients, enriched, sorted, summary>>

\* The state of the spoilage engine and of what is derived with it
\* The state of the ingredients page
page == <<isLoading, modalState, handlers>>

engine == <<zone, args, result, previous, view, audit, page>>

vars == <<store, txOwner, work, calls, clock, nextId, ops, faults, hist, initial,
          engine>>

Calls == 1..MaxCalls

NoData == [name |-> Undefined, unit |-> Undefined,
           stockQty |-> Undefined, shelfLifeDays |-> Undefined]

\* A slot with no call in it
IdleCall ==
    [op |-> "none", pc |-> "idle",
     id |-> 0, purchasedQty |-> Undefined, data |-> NoData,
     ingredient |-> Undefined,
     previousStockQty |-> Undefined, newStockQty |-> Undefined,
     newPurchasedAt |-> Undefined, updatedIngredient |-> Undefined,
     outcome |-> "pending", result |-> Undefined,
     \* history of the call, kept for the properties
     pre |-> EmptyStore, txPre |-> EmptyStore, post |-> EmptyStore,
     accesses |-> 0, faulted |-> FALSE, wrote |-> FALSE, commitIndex |-> 0]

\* The slot a new call takes: the first one whose call, if any, has completed
Free(c) ==
    /\ calls[c].pc \in {"idle", "done"}
    /\ \A d \in Calls : d < c => calls[d].pc \notin {"idle", "done"}

\* The outcomes a store operation can have in this state
Outcomes == {NoFault} \cup (IF faults < MaxFaults THEN StoreFaults ELSE {})

CountFault(f) == IF f = NoFault THEN faults ELSE faults + 1

(***************************************************************************)
(* buyIngredient                                                           *)
(***************************************************************************)
BuyFailureKeepsStock(message) ==
    [success |-> FALSE, error |-> message, updatedIngredient |-> Null,
     previousStockQty |-> Fin(0), newStockQty |-> Null]

BuyFailure(message) ==
    [success |-> FALSE, error |-> message, updatedIngredient |-> Null,
     previousStockQty |-> Null, newStockQty |-> Null]

BuySuccessWithoutRecord(updatedIngredient, previousStockQty, newStockQty) ==
    [success |-> TRUE, error |-> Null, updatedIngredient |-> Null,
     previousStockQty |-> previousStockQty, newStockQty |-> newStockQty]

BuySuccess(updatedIngredient, previousStockQty, newStockQty) ==
    [success |-> TRUE, error |-> Null, updatedIngredient |-> updatedIngredient,
     previousStockQty |-> previousStockQty, newStockQty |-> newStockQty]

\* The two precondition checks: the message of the check that fails, else null
QtyErrorNoFiniteCheck(purchasedQty) ==
    IF NumLeZero(purchasedQty)
    THEN Str("Purchase quantity must be greater than 0")
    ELSE Null

QtyError(purchasedQty) ==
    IF NumLeZero(purchasedQty)
    THEN Str("Purchase quantity must be greater than 0")
    ELSE IF ~NumberIsFinite(purchasedQty)
    THEN Str("Purchase quantity must be a valid number")
    ELSE Null

\* error instanceof Error ? error.message : 'Unknown error occurred'
ErrorMessage(e) ==
    IF e.isError THEN Str(e.message) ELSE Str("Unknown error occurred")

NotFound == [isError |-> TRUE, message |-> "Ingredient not found"]

\* The catch block of buyIngredient
BuyCatchRethrows(call, e) ==
    [call EXCEPT !.pc = "done", !.outcome = "rejected", !.result = ErrorMessage(e)]

BuyCatch(call, e) ==
    [call EXCEPT !.pc = "done", !.outcome = "returned",
                 !.result = BuyFailure(ErrorMessage(e))]

\* Line 84
NewStockQtyOverwrites(previousStockQty, purchasedQty) == purchasedQty

NewStockQty(previousStockQty, purchasedQty) == NumAdd(previousStockQty, purchasedQty)

\* The fields the buy writes
BuyChangesStockOnly(newStockQty, newPurchasedAt) ==
    [stockQty |-> newStockQty]

BuyChangesRenames(newStockQty, newPurchasedAt) ==
    [stockQty |-> newStockQty, purchasedAt |-> newPurchasedAt, name |-> Str(<<>>)]

BuyChanges(newStockQty, newPurchasedAt) ==
    [stockQty |-> newStockQty, purchasedAt |-> newPurchasedAt]

\* The table a get inside the transaction of call c reads
TxReadOutsideTransaction(c) == calls[c].pre

TxRead(c) == work

\* What the table holds once a transaction has been aborted
RollbackKeepsWrites(committed, uncommitted) == uncommitted

Rollback(committed, uncommitted) == committed

\* A rejection inside the transaction body: the transaction is aborted and
\* the rejection reaches the catch block
BuyAbort(c, e, f) ==
    /\ store' = Rollback(store, work)
    /\ work' = store'
    /\ txOwner' = 0
    /\ faults' = CountFault(f)
    /\ calls' = [calls EXCEPT ![c] =
                    BuyCatch([@ EXCEPT !.post = store', !.faulted = (f # NoFault),
                                       !.accesses = @ + 1], e)]

\* The quantities a caller passes
Quantities == {Fin(-1), Fin(0), NaN, PosInf, Fin(2)}

\* Lines 46-75: the checks, then the request for a transaction
buyIngredientCall(c, ids, quantities) ==
    /\ Free(c)
    /\ ops < MaxOps
    /\ \E ingredientId \in ids, purchasedQty \in quantities :
        LET call == [IdleCall EXCEPT !.op = "buy", !.id = ingredientId,
                                     !.purchasedQty = purchasedQty,
                                     !.pre = store, !.txPre = store, !.post = store]
        IN  calls' = [calls EXCEPT ![c] =
                IF QtyError(purchasedQty) # Null
                THEN [call EXCEPT !.pc = "done", !.outcome = "returned",
                                  !.result = BuyFailure(QtyError(purchasedQty))]
                ELSE [call EXCEPT !.pc = "tx_begin", !.accesses = 1]]
    /\ ops' = ops + 1
    /\ UNCHANGED <<store, txOwner, work, clock, nextId, faults, hist, initial>>

\* The call of a caller other than the page
buyIngredientWith(c, ids, quantities) ==
    buyIngredientCall(c, ids, quantities) /\ UNCHANGED engine

buyIngredient(c) == buyIngredientWith(c, Ids, Quantities)

\* No 'rw' transaction on db.ingredients is running: a transaction on the
\* table, explicit or implicit, starts only then
TableIdleIgnoresTransaction == TRUE

TableIdle == txOwner = 0

\* Line 75: the 'rw' transaction on db.ingredients starts once no other
\* transaction on the table is running
transactionBegin(c) ==
    /\ calls[c].pc = "tx_begin"
    /\ TableIdle
    /\ \E f \in Outcomes :
        IF f # NoFault
        THEN /\ calls' = [calls EXCEPT ![c] =
                    BuyCatch([@ EXCEPT !.txPre = store, !.post = store,
                                       !.faulted = TRUE], f)]
             /\ faults' = CountFault(f)
             /\ UNCHANGED <<txOwner, work>>
        ELSE /\ txOwner' = c
             /\ work' = store
             /\ calls' = [calls EXCEPT ![c].pc = "tx_get", ![c].txPre = store]
             /\ UNCHANGED faults
    /\ UNCHANGED <<store, clock, nextId, ops, hist, initial, engine>>

\* Lines 77-85: fetch the ingredient, compute the new stock, read the clock,
\* which has not run backwards since it was last read
buyGet(c) ==
    /\ calls[c].pc = "tx_get"
    /\ txOwner = c
    /\ \E f \in Outcomes :
        LET ingredient == TableGet(TxRead(c), calls[c].id)
            counted == [calls EXCEPT ![c].accesses = @ + 1]
        IN  IF f # NoFault
            THEN BuyAbort(c, f, f) /\ UNCHANGED <<clock>>
            ELSE IF ingredient = Undefined
            THEN BuyAbort(c, NotFound, f) /\ UNCHANGED <<clock>>
            ELSE /\ \E now \in clock..MaxClock :
                    /\ clock' = now
                    /\ calls' = [counted EXCEPT
                            ![c].pc = "tx_update",
                            ![c].ingredient = ingredient,
                            ![c].previousStockQty = ingredient.stockQty,
                            ![c].newStockQty = NewStockQty(ingredient.stockQty,
                                                           calls[c].purchasedQty),
                            ![c].newPurchasedAt = Iso(now)]
                 /\ UNCHANGED <<store, txOwner, work, faults>>
    /\ UNCHANGED <<nextId, ops, hist, initial, engine>>

\* Lines 88-91: write both fields
buyUpdate(c) ==
    /\ calls[c].pc = "tx_update"
    /\ txOwner = c
    /\ \E f \in Outcomes :
        IF f # NoFault
        THEN BuyAbort(c, f, f)
        ELSE /\ work' = TableUpdate(work, calls[c].id,
                            BuyChanges(calls[c].newStockQty, calls[c].newPurchasedAt))
             /\ calls' = [calls EXCEPT ![c].pc = "tx_reget", ![c].accesses = @ + 1]
             /\ UNCHANGED <<store, txOwner, faults>>
    /\ UNCHANGED <<clock, nextId, ops, hist, initial, engine>>

\* Line 94: read the record back
buyReget(c) ==
    /\ calls[c].pc = "tx_reget"
    /\ txOwner = c
    /\ \E f \in Outcomes :
        IF f # NoFault
        THEN BuyAbort(c, f, f)
        ELSE /\ calls' = [calls EXCEPT
                    ![c].pc = "tx_commit", ![c].accesses = @ + 1,
                    ![c].updatedIngredient = TableGet(TxRead(c), calls[c].id)]
             /\ UNCHANGED <<store, txOwner, work, faults>>
    /\ UNCHANGED <<clock, nextId, ops, hist, initial, engine>>

\* Lines 96-109: the body has run to its end, the transaction commits and the
\* success result is built
buyCommit(c) ==
    /\ calls[c].pc = "tx_commit"
    /\ txOwner = c
    /\ \E f \in Outcomes :
        IF f # NoFault
        THEN BuyAbort(c, f, f) /\ UNCHANGED hist
        ELSE /\ store' = work
             /\ txOwner' = 0
             /\ calls' = [calls EXCEPT ![c] =
                    [@ EXCEPT !.pc = "done", !.outcome = "returned",
                              !.post = work, !.wrote = TRUE,
                              !.commitIndex = Len(hist) + 1,
                              !.result = BuySuccess(calls[c].updatedIngredient,
                                                    calls[c].previousStockQty,
                                                    calls[c].newStockQty)]]
             /\ hist' = Append(hist, [call |-> c, id |-> calls[c].id,
                                      purchasedQty |-> calls[c].purchasedQty,
                                      previousStockQty |-> calls[c].previousStockQty,
                                      newStockQty |-> calls[c].newStockQty])
             /\ UNCHANGED <<work, faults>>
    /\ UNCHANGED <<clock, nextId, ops, initial, engine>>

\* An audit record derived for every result, failures included
createBuyAuditRecordOfAnyResult(input, buyResult, now) ==
    [actionType |-> "BUY_INGREDIENT", timestamp |-> Iso(now),
     ingredientId |-> input.ingredientId, purchasedQty |-> input.purchasedQty,
     previousStockQty |-> buyResult.previousStockQty,
     newStockQty |-> buyResult.newStockQty]

\* Lines 128-144: null unless the result is a success with both stocks, else
\* the record; now is what new Date() reads
createBuyAuditRecord(input, buyResult, now) ==
    IF \/ ~buyResult.success
       \/ buyResult.previousStockQty = Null
       \/ buyResult.newStockQty = Null
    THEN Null
    ELSE [actionType |-> "BUY_INGREDIENT", timestamp |-> Iso(now),
          ingredientId |-> input.ingredientId, purchasedQty |-> input.purchasedQty,
          previousStockQty |-> buyResult.previousStockQty,
          newStockQty |-> buyResult.newStockQty]

\* No audit record has been derived
AuditIdle == audit = Undefined

\* No handler of the page is running
IdleHandler == [kind |-> "none", pc |-> "idle", closed |-> FALSE]

\* Lines 37-38: the page as it is mounted, no modal open
PageIdle ==
    /\ isLoading = FALSE
    /\ modalState = [type |-> "none", ingredient |-> 0]
    /\ handlers = [c \in Calls |-> IdleHandler]

\* A caller derives the audit record of a buy that has returned, from the
\* input it passed and the result it got; one record is derived
auditBuy(c) ==
    /\ audit = Undefined
    /\ calls[c].op = "buy"
    /\ calls[c].pc = "done"
    /\ calls[c].outcome = "returned"
    /\ \E now \in clock..MaxClock :
        /\ clock' = now
        /\ LET input == [ingredientId |-> calls[c].id,
                         purchasedQty |-> calls[c].purchasedQty]
           IN  audit' = [input |-> input, result |-> calls[c].result,
                         record |-> createBuyAuditRecord(input, calls[c].result, now)]
    /\ UNCHANGED <<store, txOwner, work, calls, nextId, ops, faults, hist, initial,
                   zone, args, result, previous, view, page>>


(***************************************************************************)
(* Ingredient CRUD.  Outside a transaction scope every table operation     *)
(* runs in a transaction of its own, which waits for a running 'rw'        *)
(* transaction on the table.                                               *)
(***************************************************************************)
\* A rejection of a table operation awaited by a CRUD function: no catch
CrudReject(call, e) ==
    [call EXCEPT !.pc = "done", !.outcome = "rejected", !.result = ErrorMessage(e),
                 !.faulted = TRUE, !.accesses = @ + 1]

\* The form data a caller passes to createIngredient: an object that also
\* carries a purchasedAt, which IngredientFormData does not have
CreateData ==
    {[name |-> Str(<<" ", "a", " ">>), unit |-> Str(<<"k", "g", " ">>),
      stockQty |-> Fin(0), shelfLifeDays |-> Fin(7), purchasedAt |-> Iso(0)]}

\* The partial form data a caller passes to updateIngredient: no unit
UpdateData ==
    {[NoData EXCEPT !.name = Str(<<" ", "c">>), !.stockQty = Fin(-1),
                    !.shelfLifeDays = Fin(0)]}

\* Lines 19-26 of createIngredient: the record built from the form data
NewIngredientCopiesData(id, data) ==
    [id |-> id, name |-> data.name, unit |-> data.unit,
     stockQty |-> data.stockQty, shelfLifeDays |-> data.shelfLifeDays,
     purchasedAt |-> data.purchasedAt]

NewIngredient(id, data) ==
    [id |-> id, name |-> Trim(data.name), unit |-> Trim(data.unit),
     stockQty |-> data.stockQty, shelfLifeDays |-> data.shelfLifeDays,
     purchasedAt |-> Null]

\* Lines 18-28: build the record and ask the table to add it
createIngredientCall(c, dataSet) ==
    /\ Free(c)
    /\ ops < MaxOps
    /\ nextId <= MaxId
    /\ \E data \in dataSet :
        calls' = [calls EXCEPT ![c] =
            [IdleCall EXCEPT !.op = "create", !.pc = "add", !.id = nextId,
                             !.data = data, !.ingredient = NewIngredient(nextId, data),
                             !.pre = store, !.txPre = store, !.post = store]]
    /\ nextId' = nextId + 1
    /\ ops' = ops + 1
    /\ UNCHANGED <<store, txOwner, work, clock, faults, hist, initial>>

createIngredientWith(c, dataSet) ==
    createIngredientCall(c, dataSet) /\ UNCHANGED engine

createIngredient(c) == createIngredientWith(c, CreateData)

\* Lines 28-29: the add has run, the record is returned
createAdd(c) ==
    /\ calls[c].pc = "add"
    /\ TableIdle
    /\ \E f \in Outcomes :
        IF f # NoFault
        THEN /\ calls' = [calls EXCEPT ![c] = CrudReject([@ EXCEPT !.post = store], f)]
             /\ faults' = CountFault(f)
             /\ UNCHANGED <<store, work>>
        ELSE /\ store' = TableAdd(store, calls[c].ingredient)
             /\ work' = IF txOwner = 0 THEN store' ELSE work
             /\ calls' = [calls EXCEPT ![c] =
                    [@ EXCEPT !.pc = "done", !.outcome = "returned",
                              !.result = calls[c].ingredient, !.accesses = @ + 1,
                              !.txPre = store, !.post = store', !.wrote = TRUE]]
             /\ UNCHANGED faults
    /\ UNCHANGED <<txOwner, clock, nextId, ops, hist, initial, engine>>

\* Lines 68-81 of updateIngredient: the fields present in the partial data
UpdatesUntrimmed(data) ==
    LET present == {f \in {"name", "unit", "stockQty", "shelfLifeDays"} :
                        data[f] # Undefined}
    IN  [f \in present |-> data[f]]

UpdatesRewriteId(data) ==
    LET present == {f \in {"name", "unit", "stockQty", "shelfLifeDays"} :
                        data[f] # Undefined}
    IN  [f \in present \cup {"id"} |->
            IF f = "id" THEN 0
            ELSE IF f \in {"name", "unit"} THEN Trim(data[f]) ELSE data[f]]

UpdatesClearPurchasedAt(data) ==
    [f \in {"name", "purchasedAt"} |->
        IF f = "name" THEN Trim(data.name) ELSE Null]

Updates(data) ==
    LET present == {f \in {"name", "unit", "stockQty", "shelfLifeDays"} :
                        data[f] # Undefined}
    IN  [f \in present |-> IF f \in {"name", "unit"} THEN Trim(data[f]) ELSE data[f]]

\* Lines 58-62: ask the table for the record
updateIngredientCall(c, ids, dataSet) ==
    /\ Free(c)
    /\ ops < MaxOps
    /\ \E id \in ids, data \in dataSet :
        calls' = [calls EXCEPT ![c] =
            [IdleCall EXCEPT !.op = "update", !.pc = "upd_get", !.id = id,
                             !.data = data,
                             !.pre = store, !.txPre = store, !.post = store]]
    /\ ops' = ops + 1
    /\ UNCHANGED <<store, txOwner, work, clock, nextId, faults, hist, initial>>

updateIngredientWith(c, dataSet) ==
    updateIngredientCall(c, Ids, dataSet) /\ UNCHANGED engine

updateIngredient(c) == updateIngredientWith(c, UpdateData)

\* Lines 64-66: the get found no record in the table
UpdateAbsentThrows(call, table) ==
    [call EXCEPT !.pc = "done", !.outcome = "rejected",
                 !.result = ErrorMessage(NotFound), !.accesses = @ + 1,
                 !.txPre = table, !.post = table]

UpdateAbsent(call, table) ==
    [call EXCEPT !.pc = "done", !.outcome = "returned",
                 !.result = Null, !.accesses = @ + 1,
                 !.txPre = table, !.post = table]

\* Lines 62-83: null when the record is absent, else ask the table to update it
updateGet(c) ==
    /\ calls[c].pc = "upd_get"
    /\ TableIdle
    /\ \E f \in Outcomes :
        LET existing == TableGet(store, calls[c].id)
        IN  /\ calls' = [calls EXCEPT ![c] =
                    IF f # NoFault
                    THEN CrudReject([@ EXCEPT !.post = store], f)
                    ELSE IF existing = Undefined
                    THEN UpdateAbsent(@, store)
                    ELSE [@ EXCEPT !.pc = "upd_write", !.ingredient = existing,
                                   !.accesses = @ + 1, !.txPre = store]]
            /\ faults' = CountFault(f)
    /\ UNCHANGED <<store, txOwner, work, clock, nextId, ops, hist, initial, engine>>

\* Lines 83-85: the update has run, ask the table for the record again
updateWrite(c) ==
    /\ calls[c].pc = "upd_write"
    /\ TableIdle
    /\ \E f \in Outcomes :
        IF f # NoFault
        THEN /\ calls' = [calls EXCEPT ![c] = CrudReject([@ EXCEPT !.post = store], f)]
             /\ faults' = CountFault(f)
             /\ UNCHANGED <<store, work>>
        ELSE /\ store' = TableUpdate(store, calls[c].id, Updates(calls[c].data))
             /\ work' = IF txOwner = 0 THEN store' ELSE work
             /\ calls' = [calls EXCEPT ![c].pc = "upd_reget", ![c].accesses = @ + 1,
                                       ![c].txPre = store, ![c].post = store',
                                       ![c].wrote = (store' # store)]
             /\ UNCHANGED faults
    /\ UNCHANGED <<txOwner, clock, nextId, ops, hist, initial, engine>>

\* Lines 85-86: return updated || null
updateReget(c) ==
    /\ calls[c].pc = "upd_reget"
    /\ TableIdle
    /\ \E f \in Outcomes :
        LET updated == TableGet(store, calls[c].id)
        IN  /\ calls' = [calls EXCEPT ![c] =
                    IF f # NoFault
                    THEN CrudReject([@ EXCEPT !.post = store], f)
                    ELSE [@ EXCEPT !.pc = "done", !.outcome = "returned",
                                   !.updatedIngredient = updated,
                                   !.result = IF updated = Undefined THEN Null ELSE updated,
                                   !.accesses = @ + 1, !.post = store]]
            /\ faults' = CountFault(f)
    /\ UNCHANGED <<store, txOwner, work, clock, nextId, ops, hist, initial, engine>>

\* Lines 95-96: ask the table for the record
deleteIngredientCall(c, ids) ==
    /\ Free(c)
    /\ ops < MaxOps
    /\ \E id \in ids :
        calls' = [calls EXCEPT ![c] =
            [IdleCall EXCEPT !.op = "delete", !.pc = "del_get", !.id = id,
                             !.pre = store, !.txPre = store, !.post = store]]
    /\ ops' = ops + 1
    /\ UNCHANGED <<store, txOwner, work, clock, nextId, faults, hist, initial>>

deleteIngredient(c) == deleteIngredientCall(c, Ids) /\ UNCHANGED engine

\* Lines 96-102: false when the record is absent, else ask the table to delete it
deleteGet(c) ==
    /\ calls[c].pc = "del_get"
    /\ TableIdle
    /\ \E f \in Outcomes :
        LET existing == TableGet(store, calls[c].id)
        IN  /\ calls' = [calls EXCEPT ![c] =
                    IF f # NoFault
                    THEN CrudReject([@ EXCEPT !.post = store], f)
                    ELSE IF existing = Undefined
                    THEN [@ EXCEPT !.pc = "done", !.outcome = "returned",
                                   !.result = Bool(FALSE), !.accesses = @ + 1,
                                   !.txPre = store, !.post = store]
                    ELSE [@ EXCEPT !.pc = "del_delete", !.ingredient = existing,
                                   !.accesses = @ + 1, !.txPre = store]]
            /\ faults' = CountFault(f)
    /\ UNCHANGED <<store, txOwner, work, clock, nextId, ops, hist, initial, engine>>

\* Lines 102-103: the delete has run, return true
deleteDelete(c) ==
    /\ calls[c].pc = "del_delete"
    /\ TableIdle
    /\ \E f \in Outcomes :
        IF f # NoFault
        THEN /\ calls' = [calls EXCEPT ![c] = CrudReject([@ EXCEPT !.post = store], f)]
             /\ faults' = CountFault(f)
             /\ UNCHANGED <<store, work>>
        ELSE /\ store' = TableDelete(store, calls[c].id)
             /\ work' = IF txOwner = 0 THEN store' ELSE work
             /\ calls' = [calls EXCEPT ![c] =
                    [@ EXCEPT !.pc = "done", !.outcome = "returned",
                              !.result = Bool(TRUE), !.accesses = @ + 1,
                              !.txPre = store, !.post = store',
                              !.wrote = (store' # store)]]
             /\ UNCHANGED faults
    /\ UNCHANGED <<txOwner, clock, nextId, ops, hist, initial, engine>>

(***************************************************************************)
(* The ingredients page: one modal at a time, and four action handlers     *)
(* that share the isLoading flag.  A handler runs to its await in one      *)
(* step and resumes in another once the call it awaits has settled.        *)
(***************************************************************************)
NoModal == [type |-> "none", ingredient |-> 0]

\* Lines 66-80: the user opens a modal, for the edit, buy and delete modals
\* on an ingredient of the list
openModal ==
    /\ modalState = NoModal
    /\ \/ modalState' = [type |-> "add", ingredient |-> 0]
       \/ \E type \in {"edit", "buy", "delete"}, id \in Ids :
            /\ TableGet(store, id) # Undefined
            /\ modalState' = [type |-> type, ingredient |-> id]
    /\ UNCHANGED <<store, txOwner, work, calls, clock, nextId, ops, faults, hist,
                   initial, zone, args, result, previous, view, audit, isLoading,
                   handlers>>

\* Lines 62-64: closeModal, called by the modal on Escape or a click outside
closeModal ==
    /\ modalState # NoModal
    /\ modalState' = NoModal
    /\ UNCHANGED <<store, txOwner, work, calls, clock, nextId, ops, faults, hist,
                   initial, zone, args, result, previous, view, audit, isLoading,
                   handlers>>

\* A handler of the given kind has called the action layer in slot c and
\* awaits the call; the submit buttons are disabled while isLoading is true
Awaits(c, kind) ==
    /\ isLoading = FALSE
    /\ modalState.type = kind
    /\ isLoading' = TRUE
    /\ handlers' = [handlers EXCEPT ![c] =
                        [kind |-> kind, pc |-> "awaiting", closed |-> FALSE]]
    /\ UNCHANGED <<modalState, zone, args, result, previous, view, audit>>

\* The handler in slot c resumes after the call has settled: it closes the
\* modal or not, and its finally block resets isLoading
Resumes(c, kind, closes) ==
    /\ handlers[c].kind = kind
    /\ handlers[c].pc = "awaiting"
    /\ calls[c].pc = "done"
    /\ modalState' = IF closes THEN NoModal ELSE modalState
    /\ isLoading' = FALSE
    /\ handlers' = [handlers EXCEPT ![c].pc = "finished", ![c].closed = closes]
    /\ UNCHANGED <<store, txOwner, work, calls, clock, nextId, ops, faults, hist,
                   initial, zone, args, result, previous, view, audit>>

\* The awaited call resolved: the statement after the await is reached
Resolved(c) == calls[c].outcome = "returned"

\* Lines 83-93
handleAddIngredient(c) ==
    Awaits(c, "add") /\ createIngredientCall(c, CreateData)

handleAddIngredientResumes(c) == Resumes(c, "add", Resolved(c))

\* Lines 95-107
handleEditIngredient(c) ==
    Awaits(c, "edit") /\ updateIngredientCall(c, {modalState.ingredient}, UpdateData)

handleEditIngredientResumes(c) == Resumes(c, "edit", Resolved(c))

\* The handler closes the buy modal whatever the result
BuyClosesAlways(buyResult) == TRUE

\* Lines 118-123: return before closeModal() when the result is a failure
BuyCloses(buyResult) == buyResult.success

\* Lines 109-130; the quantity is valid, or 0
handleBuyIngredient(c) ==
    Awaits(c, "buy")
        /\ buyIngredientCall(c, {modalState.ingredient}, {Fin(0), Fin(2)})

handleBuyIngredientResumes(c) ==
    Resumes(c, "buy", Resolved(c) /\ BuyCloses(calls[c].result))

\* Lines 132-144
handleDeleteIngredient(c) ==
    Awaits(c, "delete") /\ deleteIngredientCall(c, {modalState.ingredient})

handleDeleteIngredientResumes(c) == Resumes(c, "delete", Resolved(c))


(***************************************************************************)
(* The spoilage engine.  Instants are milliseconds since the epoch, a Date *)
(* is its time value: a finite number, or NaN for an Invalid Date.         *)
(***************************************************************************)
DEFAULT_NEAR_EXPIRY_THRESHOLD_DAYS == 3

msPerHour == 60 * 60 * 1000

msPerDay == 24 * 60 * 60 * 1000

\* !x
Falsy(x) == x \in {Null, Undefined, NaN, Fin(0), Str(<<>>), Bool(FALSE)}

\* a < b on numbers: false when either is NaN
NumLess(a, b) ==
    /\ a.k # "nan" /\ b.k # "nan"
    /\ \/ a.k = "fin" /\ b.k = "fin" /\ a.v < b.v
       \/ a = NegInf /\ b # NegInf
       \/ b = PosInf /\ a # PosInf

\* a <= b on numbers: false when either is NaN
NumLessEq(a, b) ==
    /\ a.k # "nan" /\ b.k # "nan"
    /\ (a = b \/ NumLess(a, b))

\* new Date(string).getTime(): the instant an ISO 8601 string denotes, NaN for
\* any other string
DateParseLenient(s) == IF s.k = "iso" THEN Fin(s.v) ELSE Fin(0)

DateParse(s) == IF s.k = "iso" THEN Fin(s.v) ELSE NaN

\* The offset of local time from UTC at instant t in the host's time zone
LocalOffset(t) == IF t < zone.at THEN 0 ELSE zone.shift

\* The local time at instant t
LocalTime(t) == t + LocalOffset(t)

\* The instant of a local time: a local time that occurs twice, or not at all,
\* is read with the offset before the change
UTC(local) ==
    IF local < zone.at THEN local
    ELSE IF local - zone.shift >= zone.at THEN local - zone.shift
    ELSE local

\* days times 24 hours later, whatever the local time
SetDateAddsHours(date, days) ==
    IF days.k # "fin" THEN NaN
    ELSE Fin(date.v + days.v * msPerDay)

\* date.setDate(date.getDate() + days) on a valid date: the same local time of
\* day, days calendar days later; an Invalid Date when days is not finite
SetDate(date, days) ==
    IF days.k # "fin" THEN NaN
    ELSE Fin(UTC(LocalTime(date.v) + days.v * msPerDay))

\* Math.ceil(a / b) for integers a and b > 0
MathFloor(a, b) == a \div b

MathCeilNegates(a, b) == (-a) \div b

MathCeil(a, b) == -((-a) \div b)

\* Lines 76-77
DaysRemaining(expiryDate, currentDate) ==
    IF expiryDate.k # "fin" THEN NaN
    ELSE Fin(MathCeil(expiryDate.v - currentDate, msPerDay))

\* Lines 80-87
StatusOfExclusive(daysRemaining, nearExpiryThresholdDays) ==
    IF NumLess(daysRemaining, Fin(0)) THEN "Expired"
    ELSE IF NumLess(daysRemaining, nearExpiryThresholdDays) THEN "NearExpiry"
    ELSE "Fresh"

StatusOf(daysRemaining, nearExpiryThresholdDays) ==
    IF NumLess(daysRemaining, Fin(0)) THEN "Expired"
    ELSE IF NumLessEq(daysRemaining, nearExpiryThresholdDays) THEN "NearExpiry"
    ELSE "Fresh"

UnknownResult ==
    [expiryDate |-> Null, daysRemaining |-> Null, spoilageStatus |-> "Unknown"]

computeSpoilageReadsClock(ingredient, currentDate, nearExpiryThresholdDays) ==
    IF Falsy(ingredient.purchasedAt) THEN UnknownResult
    ELSE IF Falsy(ingredient.shelfLifeDays) \/ NumLeZero(ingredient.shelfLifeDays)
    THEN UnknownResult
    ELSE LET purchaseDate == DateParse(ingredient.purchasedAt)
         IN  IF purchaseDate = NaN THEN UnknownResult
             ELSE LET expiryDate == SetDate(purchaseDate, ingredient.shelfLifeDays)
                      daysRemaining == DaysRemaining(expiryDate, clock * msPerDay)
                  IN  [expiryDate |-> expiryDate,
                       daysRemaining |-> daysRemaining,
                       spoilageStatus |->
                            StatusOf(daysRemaining, nearExpiryThresholdDays)]

computeSpoilage(ingredient, currentDate, nearExpiryThresholdDays) ==
    IF Falsy(ingredient.purchasedAt) THEN UnknownResult
    ELSE IF Falsy(ingredient.shelfLifeDays) \/ NumLeZero(ingredient.shelfLifeDays)
    THEN UnknownResult
    ELSE LET purchaseDate == DateParse(ingredient.purchasedAt)
         IN  IF purchaseDate = NaN THEN UnknownResult
             ELSE LET expiryDate == SetDate(purchaseDate, ingredient.shelfLifeDays)
                      daysRemaining == DaysRemaining(expiryDate, currentDate)
                  IN  [expiryDate |-> expiryDate,
                       daysRemaining |-> daysRemaining,
                       spoilageStatus |->
                            StatusOf(daysRemaining, nearExpiryThresholdDays)]

\* A host whose local time is UTC
UTCZone == [at |-> 0, shift |-> 0]

\* The engine before its first evaluation
EngineIdle ==
    /\ zone = UTCZone
    /\ args = [ingredient |-> Undefined, currentDate |-> 0,
               nearExpiryThresholdDays |-> Fin(DEFAULT_NEAR_EXPIRY_THRESHOLD_DAYS)]
    /\ result = Undefined
    /\ previous = Undefined

(***************************************************************************)
(* Enrichment, sorting and summary of a list of ingredients.               *)
(***************************************************************************)
\* Lines 103-116: the ingredient with inStock and the result of computeSpoilage
\* with the default threshold
enrichWithSpoilage(ingredient, currentDate) ==
    LET spoilage == computeSpoilage(ingredient, currentDate,
                                    Fin(DEFAULT_NEAR_EXPIRY_THRESHOLD_DAYS))
    IN  [id |-> ingredient.id, name |-> ingredient.name, unit |-> ingredient.unit,
         stockQty |-> ingredient.stockQty,
         shelfLifeDays |-> ingredient.shelfLifeDays,
         purchasedAt |-> ingredient.purchasedAt,
         inStock |-> Bool(NumGtZero(ingredient.stockQty)),
         expiryDate |-> spoilage.expiryDate,
         daysRemaining |-> spoilage.daysRemaining,
         spoilageStatus |-> spoilage.spoilageStatus]

\* Lines 125-130
enrichAllWithSpoilage(ingredients, currentDate) ==
    [i \in 1..Len(ingredients) |-> enrichWithSpoilage(ingredients[i], currentDate)]

\* Lines 155-160
statusOrder(status) ==
    CASE status = "Expired" -> 0
      [] status = "NearExpiry" -> 1
      [] status = "Fresh" -> 2
      [] status = "Unknown" -> 3

\* a - b on numbers that are finite or NaN
\* numbers from 2^53 on are subtracted from one another only
NumSub(a, b) ==
    IF a.k = b.k /\ a.k \in {"fin", "big"} THEN Fin(a.v - b.v) ELSE NaN

\* Lines 162-172: the comparator handed to sort
compareUrgency(a, b) ==
    LET statusDiff == statusOrder(a.spoilageStatus) - statusOrder(b.spoilageStatus)
    IN  IF statusDiff # 0 THEN Fin(statusDiff)
        ELSE IF a.daysRemaining = Null /\ b.daysRemaining = Null THEN Fin(0)
        ELSE IF a.daysRemaining = Null THEN Fin(1)
        ELSE IF b.daysRemaining = Null THEN Fin(-1)
        ELSE NumSub(a.daysRemaining, b.daysRemaining)

\* The number Array.prototype.sort takes from the comparator: NaN counts as +0
SortCompare(a, b) ==
    IF compareUrgency(a, b) = NaN THEN 0 ELSE compareUrgency(a, b).v

\* The comparator is consistent on the elements of the list, as
\* Array.prototype.sort requires for the order of its result to be defined
ConsistentComparator(list) ==
    LET E == {list[i] : i \in 1..Len(list)}
    IN  /\ \A a \in E : SortCompare(a, a) = 0
        /\ \A a, b \in E : SortCompare(a, b) = 0 => SortCompare(b, a) = 0
        /\ \A a, b, c \in E :
            /\ SortCompare(a, b) = 0 /\ SortCompare(b, c) = 0 => SortCompare(a, c) = 0
            /\ SortCompare(a, b) < 0 /\ SortCompare(b, c) < 0 => SortCompare(a, c) < 0
            /\ SortCompare(a, b) > 0 /\ SortCompare(b, c) > 0 => SortCompare(a, c) > 0

\* x put into a sorted list behind the elements that do not come after it
RECURSIVE SortInsert(_, _)
SortInsert(list, x) ==
    IF list = <<>> THEN <<x>>
    ELSE IF SortCompare(Head(list), x) <= 0
    THEN <<Head(list)>> \o SortInsert(Tail(list), x)
    ELSE <<x>> \o list

\* The stable sort of the list: what sort returns with a consistent comparator
RECURSIVE StableSort(_)
StableSort(list) ==
    IF list = <<>> THEN <<>>
    ELSE SortInsert(StableSort(SubSeq(list, 1, Len(list) - 1)), list[Len(list)])

\* Lines 152-173: the lists [...ingredients].sort(comparator) can return: the
\* stable sort when the comparator is consistent on the list, else a
\* rearrangement of the list in an order the implementation chooses
sortByExpiryUrgency(ingredients) ==
    IF ConsistentComparator(ingredients) THEN {StableSort(ingredients)}
    ELSE {[i \in 1..Len(ingredients) |-> ingredients[p[i]]] :
            p \in Permutations(1..Len(ingredients))}

Statuses == {"Fresh", "NearExpiry", "Expired", "Unknown"}

\* Lines 184-189: the summary before any entry is counted
EmptySummary == [status \in Statuses |-> 0]

\* A count that leaves entries of unknown status out
CountSkipsUnknown(counts, ing) ==
    IF ing.spoilageStatus = "Unknown" THEN counts
    ELSE [counts EXCEPT ![ing.spoilageStatus] = @ + 1]

\* Lines 191-193: summary[ing.spoilageStatus]++
Count(counts, ing) == [counts EXCEPT ![ing.spoilageStatus] = @ + 1]

\* Lines 181-196: a counter per status, incremented for every entry
RECURSIVE getSpoilageSummary(_)
getSpoilageSummary(ingredients) ==
    IF ingredients = <<>> THEN EmptySummary
    ELSE Count(getSpoilageSummary(SubSeq(ingredients, 1, Len(ingredients) - 1)),
               ingredients[Len(ingredients)])

\* The page before it has read the table
ViewIdle ==
    /\ rawIngredients = <<>>
    /\ enriched = Undefined
    /\ sorted = Undefined
    /\ summary = Undefined

(***************************************************************************)
(* The application: every operation of the action layer.  IndexedDB keeps  *)
(* the table across sessions, so the application starts on an empty table  *)
(* or on a record an earlier session created.                              *)
(***************************************************************************)
Persisted ==
    [id |-> 1, name |-> Str(<<"a">>), unit |-> Str(<<"g">>),
     stockQty |-> Fin(2), shelfLifeDays |-> Fin(7), purchasedAt |-> Null]

InitialStores == {EmptyStore, [EmptyStore EXCEPT ![1] = Persisted]}

\* The identifiers the generator has not handed out yet start above those in use
FirstFreeId(table) ==
    IF \A i \in Ids : table[i] = Undefined THEN 1
    ELSE 1 + CHOOSE i \in Ids : table[i] # Undefined /\
                                \A j \in Ids : table[j] # Undefined => j <= i

Init ==
    /\ initial \in InitialStores
    /\ store = initial
    /\ txOwner = 0
    /\ work = initial
    /\ calls = [c \in Calls |-> IdleCall]
    /\ clock = 0
    /\ nextId = FirstFreeId(initial)
    /\ ops = 0
    /\ faults = 0
    /\ hist = <<>>
    /\ EngineIdle
    /\ ViewIdle
    /\ AuditIdle
    /\ PageIdle

Next ==
    \/ \E c \in Calls : buyIngredient(c)
    \/ \E c \in Calls : transactionBegin(c)
    \/ \E c \in Calls : buyGet(c)
    \/ \E c \in Calls : buyUpdate(c)
    \/ \E c \in Calls : buyReget(c)
    \/ \E c \in Calls : buyCommit(c)
    \/ \E c \in Calls : createIngredient(c)
    \/ \E c \in Calls : createAdd(c)
    \/ \E c \in Calls : updateIngredient(c)
    \/ \E c \in Calls : updateGet(c)
    \/ \E c \in Calls : updateWrite(c)
    \/ \E c \in Calls : updateReget(c)
    \/ \E c \in Calls : deleteIngredient(c)
    \/ \E c \in Calls : deleteGet(c)
    \/ \E c \in Calls : deleteDelete(c)

Spec == Init /\ [][Next]_vars


(***************************************************************************)
(* Concurrent purchases: a table holding the ingredient, and callers that   *)
(* only issue buyIngredient on it, with valid quantities.                  *)
(***************************************************************************)
BuyStores ==
    {[EmptyStore EXCEPT ![1] = [Persisted EXCEPT !.stockQty = q, !.purchasedAt = at]] :
        q \in {Fin(0), Fin(2)}, at \in {Null, Iso(0)}}

InitBuy ==
    /\ initial \in BuyStores
    /\ store = initial
    /\ txOwner = 0
    /\ work = initial
    /\ calls = [c \in Calls |-> IdleCall]
    /\ clock = 0
    /\ nextId = FirstFreeId(initial)
    /\ ops = 0
    /\ faults = 0
    /\ hist = <<>>
    /\ EngineIdle
    /\ ViewIdle
    /\ AuditIdle
    /\ PageIdle

buyValid(c) == buyIngredientWith(c, {1}, {Fin(1), Fin(2)})

NextBuy ==
    \/ \E c \in Calls : buyValid(c)
    \/ \E c \in Calls : transactionBegin(c)
    \/ \E c \in Calls : buyGet(c)
    \/ \E c \in Calls : buyUpdate(c)
    \/ \E c \in Calls : buyReget(c)
    \/ \E c \in Calls : buyCommit(c)

SpecBuy == InitBuy /\ [][NextBuy]_vars


(***************************************************************************)
(* Purchases with valid and invalid quantities on a stored or an unknown   *)
(* id, followed by the derivation of an audit record.                      *)
(***************************************************************************)
\* A caller buys the first id, stored or not, with a quantity of 0, 1 or 2
buyAny(c) == buyIngredientWith(c, {1}, {Fin(0), Fin(1), Fin(2)})

NextAudit ==
    \/ \E c \in Calls : buyAny(c)
    \/ \E c \in Calls : transactionBegin(c)
    \/ \E c \in Calls : buyGet(c)
    \/ \E c \in Calls : buyUpdate(c)
    \/ \E c \in Calls : buyReget(c)
    \/ \E c \in Calls : buyCommit(c)
    \/ \E c \in Calls : auditBuy(c)

\* The table is empty, or holds the record of an earlier session with a stock
\* of 2 or of 2^53
AuditStores ==
    {EmptyStore} \cup
    {[EmptyStore EXCEPT ![1] = [Persisted EXCEPT !.stockQty = q]] :
        q \in {Fin(2), Big(0)}}

InitAudit ==
    /\ initial \in AuditStores
    /\ store = initial
    /\ txOwner = 0
    /\ work = initial
    /\ calls = [c \in Calls |-> IdleCall]
    /\ clock = 0
    /\ nextId = FirstFreeId(initial)
    /\ ops = 0
    /\ faults = 0
    /\ hist = <<>>
    /\ EngineIdle
    /\ ViewIdle
    /\ AuditIdle
    /\ PageIdle

SpecAudit == InitAudit /\ [][NextAudit]_vars


(***************************************************************************)
(* Evaluations of the spoilage engine: one ingredient, a threshold and a   *)
(* time zone, and a reference instant that advances between evaluations.   *)
(***************************************************************************)
\* The values purchasedAt holds: null, the empty string, a string that is no
\* date, and the ISO strings of two instants
PurchasedAts == {Null, Str(<<>>), Str(<<"x">>), Iso(0), Iso(31 * msPerHour)}

\* The values shelfLifeDays holds
ShelfLives == {Undefined, NaN, PosInf, Fin(-1), Fin(0), Fin(1), Fin(7)}

Thresholds == {Fin(DEFAULT_NEAR_EXPIRY_THRESHOLD_DAYS), Fin(1)}

\* Time zones: no change of offset, clocks set back one hour, clocks set
\* forward one hour
Zones ==
    {UTCZone} \cup
    {[at |-> 30 * msPerHour, shift |-> d * msPerHour] : d \in {-1, 1}}

LastInstant == MaxDay * msPerDay

InitSpoilage ==
    /\ store = EmptyStore
    /\ initial = EmptyStore
    /\ txOwner = 0
    /\ work = EmptyStore
    /\ calls = [c \in Calls |-> IdleCall]
    /\ clock = 0
    /\ nextId = 1
    /\ ops = 0
    /\ faults = 0
    /\ hist = <<>>
    /\ zone \in Zones
    /\ \E purchasedAt \in PurchasedAts, shelfLifeDays \in ShelfLives,
          nearExpiryThresholdDays \in Thresholds, currentDate \in {0, 1} :
        args = [ingredient |-> [Persisted EXCEPT !.purchasedAt = purchasedAt,
                                                 !.shelfLifeDays = shelfLifeDays],
                currentDate |-> currentDate,
                nearExpiryThresholdDays |-> nearExpiryThresholdDays]
    /\ result = Undefined
    /\ previous = Undefined
    /\ ViewIdle
    /\ AuditIdle
    /\ PageIdle

\* computeSpoilage(ingredient, currentDate, nearExpiryThresholdDays) at the
\* reference instant the caller supplies, which is the one of the evaluation
\* before, or an hour or a day later; the wall clock runs on between the calls
Evaluate ==
    /\ \E elapsed \in {0, msPerHour, msPerDay} :
        /\ args.currentDate + elapsed <= LastInstant
        /\ args' = [args EXCEPT !.currentDate = @ + elapsed]
    /\ result' = computeSpoilage(args'.ingredient, args'.currentDate,
                                 args'.nearExpiryThresholdDays)
    /\ previous' = result
    /\ clock' \in clock..MaxClock
    /\ UNCHANGED <<store, txOwner, work, calls, nextId, ops, faults, hist,
                   initial, zone, view, audit, page>>

NextSpoilage == Evaluate

SpecSpoilage == InitSpoilage /\ [][NextSpoilage]_vars


(***************************************************************************)
(* Purchases, each followed by a reading of the bought ingredient at the   *)
(* instant its transaction committed.                                      *)
(***************************************************************************)
\* The table holds one ingredient, never bought, with a shelf life of 1, 3 or
\* 7 days
FreshStores ==
    {[EmptyStore EXCEPT ![1] = [Persisted EXCEPT !.shelfLifeDays = Fin(days)]] :
        days \in {1, 3, 7}}

\* A caller buys 2 of the ingredient
buyTwo(c) == buyIngredientWith(c, {1}, {Fin(2)})

InitFresh ==
    /\ initial \in FreshStores
    /\ store = initial
    /\ txOwner = 0
    /\ work = initial
    /\ calls = [c \in Calls |-> IdleCall]
    /\ clock = 0
    /\ nextId = FirstFreeId(initial)
    /\ ops = 0
    /\ faults = 0
    /\ hist = <<>>
    /\ zone \in Zones
    /\ args = [ingredient |-> Undefined, currentDate |-> 0,
               nearExpiryThresholdDays |-> Fin(DEFAULT_NEAR_EXPIRY_THRESHOLD_DAYS)]
    /\ result = Undefined
    /\ previous = Undefined
    /\ ViewIdle
    /\ AuditIdle
    /\ PageIdle

\* The record a successful buy committed, which the table still holds, is
\* evaluated with the default threshold at the instant of the commit: the
\* instant the buy read at line 85, or the millisecond after it; one reading
\* is made
readBought(c) ==
    /\ result = Undefined
    /\ calls[c].op = "buy"
    /\ calls[c].pc = "done"
    /\ calls[c].outcome = "returned"
    /\ calls[c].result.success
    /\ TableGet(store, calls[c].id) = calls[c].result.updatedIngredient
    /\ \E elapsed \in {0, 1} :
        args' = [ingredient |-> TableGet(store, calls[c].id),
                 currentDate |-> calls[c].newPurchasedAt.v + elapsed,
                 nearExpiryThresholdDays |-> Fin(DEFAULT_NEAR_EXPIRY_THRESHOLD_DAYS)]
    /\ result' = computeSpoilage(args'.ingredient, args'.currentDate,
                                 args'.nearExpiryThresholdDays)
    /\ UNCHANGED <<store, txOwner, work, calls, clock, nextId, ops, faults, hist,
                   initial, zone, previous, view, audit, page>>

NextFresh ==
    \/ \E c \in Calls : buyTwo(c)
    \/ \E c \in Calls : transactionBegin(c)
    \/ \E c \in Calls : buyGet(c)
    \/ \E c \in Calls : buyUpdate(c)
    \/ \E c \in Calls : buyReget(c)
    \/ \E c \in Calls : buyCommit(c)
    \/ \E c \in Calls : readBought(c)

SpecFresh == InitFresh /\ [][NextFresh]_vars


(***************************************************************************)
(* The page's list: ingredients read from the table are enriched at the    *)
(* instant of the wall clock, then sorted by urgency and summarised.       *)
(***************************************************************************)
\* The purchasedAt and shelfLifeDays of the ingredients of a list
ListedIngredients ==
    {[purchasedAt |-> Null, shelfLifeDays |-> Fin(7)]} \cup
    {[purchasedAt |-> Iso(0), shelfLifeDays |-> days] :
        days \in {Fin(1), Fin(5), Fin(7), PosInf}}

\* The lists toArray() returns: records with distinct ids, in the order of ids
RawLists ==
    UNION {[1..n -> ListedIngredients] : n \in 0..MaxList}

InitView ==
    /\ store = EmptyStore
    /\ initial = EmptyStore
    /\ txOwner = 0
    /\ work = EmptyStore
    /\ calls = [c \in Calls |-> IdleCall]
    /\ clock \in {0, 3 * msPerDay}
    /\ nextId = 1
    /\ ops = 0
    /\ faults = 0
    /\ hist = <<>>
    /\ EngineIdle
    /\ \E list \in RawLists :
        rawIngredients =
            [i \in 1..Len(list) |->
                [Persisted EXCEPT !.id = i, !.purchasedAt = list[i].purchasedAt,
                                  !.shelfLifeDays = list[i].shelfLifeDays]]
    /\ enriched = Undefined
    /\ sorted = Undefined
    /\ summary = Undefined
    /\ AuditIdle
    /\ PageIdle

\* enrichAllWithSpoilage(rawIngredients), currentDate being new Date()
Enrich ==
    /\ enriched = Undefined
    /\ enriched' = Arr(enrichAllWithSpoilage(rawIngredients, clock))
    /\ UNCHANGED <<store, txOwner, work, calls, clock, nextId, ops, faults, hist,
                   initial, zone, args, result, previous, rawIngredients, sorted,
                   summary, audit, page>>

\* sortByExpiryUrgency(enriched)
Sort ==
    /\ enriched # Undefined
    /\ sorted = Undefined
    /\ \E list \in sortByExpiryUrgency(enriched.v) : sorted' = Arr(list)
    /\ UNCHANGED <<store, txOwner, work, calls, clock, nextId, ops, faults, hist,
                   initial, zone, args, result, previous, rawIngredients, enriched,
                   summary, audit, page>>

\* getSpoilageSummary(enriched)
Summarize ==
    /\ enriched # Undefined
    /\ summary = Undefined
    /\ summary' = Obj(getSpoilageSummary(enriched.v))
    /\ UNCHANGED <<store, txOwner, work, calls, clock, nextId, ops, faults, hist,
                   initial, zone, args, result, previous, rawIngredients, enriched,
                   sorted, audit, page>>

NextView ==
    \/ Enrich
    \/ Sort
    \/ Summarize

SpecView == InitView /\ [][NextView]_vars


(***************************************************************************)
(* The page in use: the user opens and closes modals and submits them, the *)
(* handlers call the action layer, whose store operations can fail.        *)
(***************************************************************************)
NextPage ==
    \/ openModal
    \/ closeModal
    \/ \E c \in Calls : handleAddIngredient(c)
    \/ \E c \in Calls : handleAddIngredientResumes(c)
    \/ \E c \in Calls : handleEditIngredient(c)
    \/ \E c \in Calls : handleEditIngredientResumes(c)
    \/ \E c \in Calls : handleBuyIngredient(c)
    \/ \E c \in Calls : handleBuyIngredientResumes(c)
    \/ \E c \in Calls : handleDeleteIngredient(c)
    \/ \E c \in Calls : handleDeleteIngredientResumes(c)
    \/ \E c \in Calls : transactionBegin(c)
    \/ \E c \in Calls : buyGet(c)
    \/ \E c \in Calls : buyUpdate(c)
    \/ \E c \in Calls : buyReget(c)
    \/ \E c \in Calls : buyCommit(c)
    \/ \E c \in Calls : createAdd(c)
    \/ \E c \in Calls : updateGet(c)
    \/ \E c \in Calls : updateWrite(c)
    \/ \E c \in Calls : updateReget(c)
    \/ \E c \in Calls : deleteGet(c)
    \/ \E c \in Calls : deleteDelete(c)

SpecPage == Init /\ [][NextPage]_vars

\* The continuation of a handler whose awaited call has settled
HandlerResumes(c) ==
    \/ handleAddIngredientResumes(c)
    \/ handleEditIngredientResumes(c)
    \/ handleBuyIngredientResumes(c)
    \/ handleDeleteIngredientResumes(c)

\* The event loop runs the continuation of every settled await
SpecPageLive == SpecPage /\ \A c \in Calls : WF_vars(HandlerResumes(c))


(***************************************************************************)
(* Properties.                                                             *)
(***************************************************************************)
Done(c) == calls[c].pc = "done"

DoneBuy(c) == Done(c) /\ calls[c].op = "buy"

\* The call that takes the step, if any
Steps(c) == calls'[c] # calls[c]

\* C1: a step of a buyIngredient call leaves every record of the committed
\* table as it was, or moves the stock and the purchase instant of its target
\* together to their post-buy values: a reader of the table finds both fields
\* at their pre-buy values or both at their post-buy values.
C1_BuyIsAtomicToReaders ==
    [][\A c \in Calls : Steps(c) /\ calls'[c].op = "buy" =>
        \A i \in Ids :
            \/ store'[i] = store[i]
            \/ /\ i = calls[c].id
               /\ store[i] # Undefined
               /\ store'[i] = [store[i] EXCEPT
                        !.stockQty = NumAdd(store[i].stockQty, calls[c].purchasedQty),
                        !.purchasedAt = calls[c].newPurchasedAt]
               /\ calls[c].newPurchasedAt.k = "iso"]_vars

\* C1: a buy has written both fields inside its transaction and the committed
\* table still holds the pre-buy stock and the pre-buy purchase instant
C1_Witness ==
    \E c \in Calls :
        /\ txOwner = c
        /\ calls[c].pc = "tx_commit"
        /\ work[calls[c].id].purchasedAt # store[calls[c].id].purchasedAt
        /\ work[calls[c].id].stockQty # store[calls[c].id].stockQty
        /\ store[calls[c].id] = calls[c].ingredient

\* The stock of record i after the first n committed buys
RECURSIVE StockAfter(_, _)
StockAfter(i, n) ==
    IF n = 0 THEN initial[i].stockQty
    ELSE IF hist[n].id = i
         THEN NumAdd(StockAfter(i, n - 1), hist[n].purchasedQty)
         ELSE StockAfter(i, n - 1)

\* C2: concurrent buys with valid quantities on existing ingredients take
\* effect one after another in commit order: every call on which no store
\* operation failed succeeds, the stored stock is the initial stock plus the
\* quantities of the committed buys, and each call reports as previous stock
\* the stock left by the buy committed just before it.
C2_BuysAreSerialized ==
    /\ \A i \in Ids : store[i] # Undefined =>
            store[i].stockQty = StockAfter(i, Len(hist))
    /\ \A n \in 1..Len(hist) :
        /\ hist[n].previousStockQty = StockAfter(hist[n].id, n - 1)
        /\ hist[n].newStockQty = StockAfter(hist[n].id, n)
    /\ \A c \in Calls : DoneBuy(c) =>
        /\ ~calls[c].faulted => calls[c].result.success
        /\ calls[c].result.success =>
            /\ calls[c].commitIndex \in 1..Len(hist)
            /\ calls[c].result.previousStockQty =
                    StockAfter(calls[c].id, calls[c].commitIndex - 1)
            /\ calls[c].result.newStockQty =
                    StockAfter(calls[c].id, calls[c].commitIndex)

\* C2: two buys on the same ingredient were in flight together and both
\* committed
C2_Witness ==
    /\ Len(hist) = 2
    /\ hist[1].id = hist[2].id
    /\ hist[1].call # hist[2].call
    /\ \E c, d \in Calls :
        /\ DoneBuy(c) /\ calls[c].result.success /\ calls[c].commitIndex = 1
        /\ DoneBuy(d) /\ calls[d].result.success /\ calls[d].commitIndex = 2
        /\ calls[d].pre = initial

\* C3: a successful buy reports the stock stored when its transaction
\* started, the new stock is that plus the purchased quantity, the record
\* stored when it commits holds the new stock and the instant read during the
\* call, and the returned record is the stored one; a buy with a valid
\* quantity on a stored id succeeds unless a store operation fails.
C3_BuyIncrementsStock ==
    \A c \in Calls : DoneBuy(c) =>
        LET r == calls[c].result
            id == calls[c].id
        IN  /\ r.success =>
                /\ calls[c].txPre[id] # Undefined
                /\ r.previousStockQty = calls[c].txPre[id].stockQty
                /\ r.newStockQty = NumAdd(r.previousStockQty, calls[c].purchasedQty)
                /\ calls[c].post[id].stockQty = r.newStockQty
                /\ calls[c].post[id].purchasedAt = calls[c].newPurchasedAt
                /\ calls[c].newPurchasedAt \in {Iso(t) : t \in 0..clock}
                /\ r.updatedIngredient = calls[c].post[id]
            /\ ( /\ NumberIsFinite(calls[c].purchasedQty)
                 /\ NumGtZero(calls[c].purchasedQty)
                 /\ calls[c].txPre[id] # Undefined
                 /\ ~calls[c].faulted ) => r.success

\* C3: the scenario of the specification, stock 2 and never purchased, bought
\* with a quantity of 2
C3_Witness ==
    \E c \in Calls :
        /\ DoneBuy(c)
        /\ calls[c].result.success
        /\ calls[c].txPre[calls[c].id].purchasedAt = Null
        /\ calls[c].result.previousStockQty = Fin(2)
        /\ calls[c].result.newStockQty = Fin(4)
        /\ store[calls[c].id].purchasedAt # Null

\* Zero, negative, NaN or infinite
BadQty(q) == q.k \in {"nan", "inf"} \/ (q.k = "fin" /\ q.v <= 0)

\* C4: a buy with a zero, negative, NaN or infinite quantity returns a
\* failure, performs no store access (no transaction requested, no record
\* read) and has completed on the table it was called on.
C4_BadQuantityFailsFast ==
    \A c \in Calls : DoneBuy(c) /\ BadQty(calls[c].purchasedQty) =>
        /\ calls[c].outcome = "returned"
        /\ ~calls[c].result.success
        /\ calls[c].accesses = 0
        /\ ~calls[c].wrote
        /\ calls[c].post = calls[c].pre

\* C4: a NaN quantity was refused on a table that holds a record
C4_Witness ==
    \E c \in Calls :
        /\ DoneBuy(c)
        /\ calls[c].purchasedQty = NaN
        /\ calls[c].pre[calls[c].id] # Undefined
        /\ ~calls[c].result.success

\* C5: a buy with a valid quantity whose transaction finds no record under
\* the id returns success = false with the three data fields null, and the
\* table at the end of the transaction is the table at its start, with no
\* record under the id.
C5_UnknownIdFails ==
    \A c \in Calls :
        ( /\ DoneBuy(c)
          /\ ~BadQty(calls[c].purchasedQty)
          /\ calls[c].txPre[calls[c].id] = Undefined ) =>
            /\ calls[c].outcome = "returned"
            /\ calls[c].result.success = FALSE
            /\ calls[c].result.updatedIngredient = Null
            /\ calls[c].result.previousStockQty = Null
            /\ calls[c].result.newStockQty = Null
            /\ calls[c].post = calls[c].txPre
            /\ calls[c].post[calls[c].id] = Undefined
            /\ ~calls[c].wrote

\* C5: the not-found failure, on a table that holds another record
C5_Witness ==
    \E c \in Calls :
        /\ DoneBuy(c)
        /\ calls[c].result = BuyFailure(Str("Ingredient not found"))
        /\ calls[c].accesses = 2
        /\ \E i \in Ids : store[i] # Undefined

\* C6: every result of buyIngredient is discriminated: success implies a null
\* error and three non-null data fields, failure implies a message and three
\* null data fields.
C6_ResultIsDiscriminated ==
    \A c \in Calls : DoneBuy(c) /\ calls[c].outcome = "returned" =>
        LET r == calls[c].result
        IN  /\ r.success =>
                /\ r.error = Null
                /\ r.updatedIngredient \notin {Null, Undefined}
                /\ r.previousStockQty \notin {Null, Undefined}
                /\ r.newStockQty \notin {Null, Undefined}
            /\ ~r.success =>
                /\ r.error.k = "str"
                /\ r.error.v # ""
                /\ r.updatedIngredient = Null
                /\ r.previousStockQty = Null
                /\ r.newStockQty = Null

\* C6: a success and a failure have both been returned
C6_Witness ==
    \E c, d \in Calls :
        /\ DoneBuy(c) /\ calls[c].result.success
        /\ DoneBuy(d) /\ ~calls[d].result.success

\* C7: a buy in which a store operation failed returns a failure result with
\* the message of the failure, raises nothing, and the table at the end of
\* its transaction is the table at its start.
C7_StoreFailureRollsBack ==
    \A c \in Calls : DoneBuy(c) /\ calls[c].faulted =>
        /\ calls[c].outcome = "returned"
        /\ \E e \in StoreFaults : calls[c].result = BuyFailure(Str(e.message))
        /\ calls[c].post = calls[c].txPre
        /\ ~calls[c].wrote

\* C7: the re-read failed, after the write had been made inside the
\* transaction
C7_Witness ==
    \E c \in Calls :
        /\ DoneBuy(c)
        /\ calls[c].faulted
        /\ calls[c].accesses = 4
        /\ calls[c].newStockQty # Undefined

Crud == {"create", "update", "delete"}

\* C8 as stated: no call of create, update, delete or buyIngredient rejects.
C8_NoCallRejects ==
    \A c \in Calls : Done(c) => calls[c].outcome = "returned"

\* C8: buyIngredient never rejects, also when a store operation fails; create,
\* update and delete have no catch and reject exactly when a store operation
\* they await fails.
C8_OnlyBuyNeverRejects ==
    \A c \in Calls : Done(c) =>
        /\ calls[c].op = "buy" => calls[c].outcome = "returned"
        /\ calls[c].op \in Crud => (calls[c].outcome = "rejected" <=> calls[c].faulted)
        /\ calls[c].outcome \in {"returned", "rejected"}

\* C8: the commit of a buy failed and the buy returned a result
C8_Witness ==
    \E c \in Calls :
        /\ DoneBuy(c)
        /\ calls[c].faulted
        /\ calls[c].accesses = 5
        /\ calls[c].outcome = "returned"

\* The call is between its first store read and its last store access
Mid(c) ==
    \/ calls[c].op = "buy" /\ calls[c].pc \in {"tx_update", "tx_reget", "tx_commit"}
    \/ calls[c].op = "update" /\ calls[c].pc \in {"upd_write", "upd_reget"}
    \/ calls[c].op = "delete" /\ calls[c].pc = "del_delete"

\* C9 as stated: no write of another operation takes effect between the first
\* store read and the last store access of a create, update, delete or buy.
C9_EveryOperationIsIsolated ==
    [][\A c \in Calls : Mid(c) /\ ~Steps(c) => store' = store]_vars

\* C9: no write of another operation takes effect between the first store
\* read and the last store access of a buyIngredient, nor at any point of its
\* transaction.
C9_BuyIsIsolated ==
    [][\A c \in Calls :
        (calls[c].op = "buy" /\ (Mid(c) \/ txOwner = c)) /\ ~Steps(c) =>
            store' = store]_vars

\* C9: a buy is inside its transaction while another call waits to write
C9_Witness ==
    \E c, d \in Calls :
        /\ c # d
        /\ txOwner = c
        /\ Mid(c)
        /\ calls[d].pc \in {"add", "upd_write", "del_delete"}

\* C10: every stored ingredient has stockQty >= 0 and shelfLifeDays > 0.
C10_StoredQuantitiesAreValid ==
    \A i \in Ids : store[i] # Undefined =>
        /\ NumGeZero(store[i].stockQty)
        /\ NumGtZero(store[i].shelfLifeDays)

\* C11: every stored ingredient carries the id it was created under, in the
\* table and inside a running transaction, so no two stored ingredients share
\* an id and no update or buy changes the id of a record.
C11_IdsAreUniqueAndKept ==
    \A i \in Ids :
        /\ store[i] # Undefined => store[i].id = i
        /\ work[i] # Undefined => work[i].id = i

\* C11: a stored ingredient has been written by an update and by a buy
C11_Witness ==
    \E c, d \in Calls :
        /\ Done(c) /\ calls[c].op = "update" /\ calls[c].wrote
        /\ DoneBuy(d) /\ calls[d].result.success
        /\ calls[c].id = calls[d].id
        /\ store[calls[c].id] # Undefined

\* C12: a create that returns added exactly one record, under an id that was
\* not in the table and that no other create was given, and changed no other
\* record; the record has the trimmed name and unit, the stockQty and
\* shelfLifeDays of the input and purchasedAt = null whatever the input
\* carries; the returned record is the stored one.
C12_CreateAddsOneRecord ==
    \A c \in Calls :
        Done(c) /\ calls[c].op = "create" /\ calls[c].outcome = "returned" =>
            LET r == calls[c].result
                data == calls[c].data
            IN  /\ r.id = calls[c].id
                /\ calls[c].txPre[r.id] = Undefined
                /\ initial[r.id] = Undefined
                /\ \A d \in Calls \ {c} : calls[d].op = "create" => calls[d].id # r.id
                /\ calls[c].post = [calls[c].txPre EXCEPT ![r.id] = r]
                /\ calls[c].post[r.id] = r
                /\ r.name = Trim(data.name)
                /\ r.unit = Trim(data.unit)
                /\ r.stockQty = data.stockQty
                /\ r.shelfLifeDays = data.shelfLifeDays
                /\ r.purchasedAt = Null

\* C12: a create returned on a table that held another record; its input had
\* blanks around the name and carried a purchasedAt
C12_Witness ==
    \E c \in Calls :
        /\ Done(c) /\ calls[c].op = "create" /\ calls[c].outcome = "returned"
        /\ \E i \in Ids : calls[c].txPre[i] # Undefined
        /\ calls[c].data.name # calls[c].result.name
        /\ calls[c].result.name = Str(<<"a">>)
        /\ calls[c].data.purchasedAt # Null

\* C13: an update whose get finds no record under the id returns null, raises
\* nothing, makes no further store access and leaves the table as it was: no
\* record is inserted under the id.
C13_UpdateOfAbsentIdReturnsNull ==
    \A c \in Calls :
        (/\ Done(c) /\ calls[c].op = "update" /\ ~calls[c].faulted
         /\ calls[c].ingredient = Undefined) =>
            /\ calls[c].txPre[calls[c].id] = Undefined
            /\ calls[c].outcome = "returned"
            /\ calls[c].result = Null
            /\ calls[c].post = calls[c].txPre
            /\ calls[c].post[calls[c].id] = Undefined
            /\ ~calls[c].wrote

\* C13: an update of an absent id has completed on a table that holds a record
C13_Witness ==
    \E c \in Calls :
        /\ Done(c) /\ calls[c].op = "update" /\ ~calls[c].faulted
        /\ calls[c].ingredient = Undefined
        /\ calls[c].txPre[calls[c].id] = Undefined
        /\ \E i \in Ids : store[i] # Undefined

\* The call is an update whose get found the record
UpdateFound(c) == calls[c].op = "update" /\ calls[c].ingredient # Undefined

\* The record old with the fields present in data set, name and unit trimmed
UpdatedRecord(old, data) ==
    [id |-> old.id,
     name |-> IF data.name = Undefined THEN old.name ELSE Trim(data.name),
     unit |-> IF data.unit = Undefined THEN old.unit ELSE Trim(data.unit),
     stockQty |-> IF data.stockQty = Undefined THEN old.stockQty ELSE data.stockQty,
     shelfLifeDays |-> IF data.shelfLifeDays = Undefined THEN old.shelfLifeDays
                       ELSE data.shelfLifeDays,
     purchasedAt |-> old.purchasedAt]

\* C14 as stated: an update that found the record under its id returns a
\* record, and that record is the one it read with exactly the fields present
\* in the input set.
C14_UpdateReturnsTheUpdatedRecord ==
    \A c \in Calls :
        Done(c) /\ UpdateFound(c) /\ ~calls[c].faulted =>
            /\ calls[c].result # Null
            /\ calls[c].result = UpdatedRecord(calls[c].ingredient, calls[c].data)

\* C14: the write of an update sets exactly the fields present in the input,
\* name and unit trimmed, on the record as the table holds it when the write
\* runs, and touches no other field and no other record; it writes nothing when
\* the record has been deleted since the get.  The update returns the record
\* the table holds at its re-read, null when there is none.
C14_UpdateWritesPresentFields ==
    \A c \in Calls : UpdateFound(c) /\ ~calls[c].faulted =>
        LET id == calls[c].id
            old == calls[c].txPre[id]
        IN  /\ calls[c].pc = "upd_reget" =>
                calls[c].post =
                    IF old = Undefined THEN calls[c].txPre
                    ELSE [calls[c].txPre EXCEPT ![id] = UpdatedRecord(old, calls[c].data)]
            /\ Done(c) =>
                /\ calls[c].outcome = "returned"
                /\ calls[c].result =
                    IF calls[c].post[id] = Undefined THEN Null ELSE calls[c].post[id]

\* C14: an update has written a record that a buy had stamped, beside another
\* record, and has returned the stored record: the name is trimmed, the unit
\* and purchasedAt are the old ones
C14_Witness ==
    \E c \in Calls :
        /\ Done(c) /\ UpdateFound(c) /\ calls[c].wrote
        /\ calls[c].result # Null
        /\ calls[c].result = store[calls[c].id]
        /\ calls[c].result.name = Str(<<"c">>)
        /\ calls[c].result.unit = calls[c].ingredient.unit
        /\ calls[c].result.purchasedAt # Null

\* C15: a delete whose get finds no record returns false after that one store
\* access and leaves the table as it was; a delete whose get finds the record
\* returns true, and the table after its delete is the table before it without
\* the record under the id, every other record unchanged, so a get of the id
\* then finds nothing.
C15_DeleteRemovesExactlyTheRecord ==
    \A c \in Calls :
        Done(c) /\ calls[c].op = "delete" /\ ~calls[c].faulted =>
            LET id == calls[c].id
            IN  /\ calls[c].outcome = "returned"
                /\ calls[c].ingredient = Undefined =>
                    /\ calls[c].result = Bool(FALSE)
                    /\ calls[c].txPre[id] = Undefined
                    /\ calls[c].post = calls[c].txPre
                    /\ calls[c].accesses = 1
                    /\ ~calls[c].wrote
                /\ calls[c].ingredient # Undefined =>
                    /\ calls[c].result = Bool(TRUE)
                    /\ calls[c].post = [calls[c].txPre EXCEPT ![id] = Undefined]
                    /\ TableGet(calls[c].post, id) = Undefined

\* C15: a delete has removed one of two stored records and returned true
C15_Witness ==
    \E c \in Calls :
        /\ Done(c) /\ calls[c].op = "delete"
        /\ calls[c].result = Bool(TRUE)
        /\ calls[c].txPre[calls[c].id] # Undefined
        /\ \E i \in Ids : i # calls[c].id /\ calls[c].post[i] # Undefined

\* The engine has been evaluated
Evaluated == result # Undefined

\* C16: every evaluation of computeSpoilage returns a result whose status is
\* Unknown exactly when purchasedAt is null or no parseable date, or
\* shelfLifeDays is absent, not a number, or <= 0; expiryDate is null exactly
\* when the status is Unknown, and so is daysRemaining.
C16_UnknownExactlyForMissingData ==
    Evaluated =>
        LET purchasedAt == args.ingredient.purchasedAt
            shelfLifeDays == args.ingredient.shelfLifeDays
            noPurchase == purchasedAt.k # "iso"
            noShelfLife ==
                \/ shelfLifeDays \in {Undefined, NaN}
                \/ shelfLifeDays.k = "fin" /\ shelfLifeDays.v <= 0
            unknown == result.spoilageStatus = "Unknown"
        IN  /\ result.spoilageStatus \in {"Fresh", "NearExpiry", "Expired", "Unknown"}
            /\ unknown <=> (noPurchase \/ noShelfLife)
            /\ result.expiryDate = Null <=> unknown
            /\ result.daysRemaining = Null <=> unknown

\* C16: an ingredient with a valid shelf life and a purchasedAt that is a
\* string but no date has been evaluated as Unknown
C16_Witness ==
    /\ Evaluated
    /\ args.ingredient.purchasedAt = Str(<<"x">>)
    /\ args.ingredient.shelfLifeDays = Fin(7)
    /\ result = UnknownResult

\* The ingredient evaluated has a purchasedAt that is a date and a positive
\* finite shelfLifeDays
ValidIngredient ==
    /\ args.ingredient.purchasedAt.k = "iso"
    /\ args.ingredient.shelfLifeDays.k = "fin"
    /\ args.ingredient.shelfLifeDays.v > 0

\* The evaluation is one of a valid ingredient, a whole number of days after
\* its purchase
WholeDaysAfterPurchase ==
    /\ Evaluated
    /\ ValidIngredient
    /\ args.currentDate >= args.ingredient.purchasedAt.v
    /\ (args.currentDate - args.ingredient.purchasedAt.v) % msPerDay = 0

\* The status the statement gives to a number of days remaining
StatusFor(days, threshold) ==
    IF days < 0 THEN "Expired"
    ELSE IF days <= threshold THEN "NearExpiry"
    ELSE "Fresh"

\* C17 as stated: k whole days after the purchase of an ingredient with shelf
\* life L, daysRemaining is L - k and the status is Expired when L - k < 0,
\* NearExpiry when 0 <= L - k <= threshold, Fresh when L - k > threshold.
C17_WholeDaysCountDown ==
    WholeDaysAfterPurchase =>
        LET L == args.ingredient.shelfLifeDays.v
            k == (args.currentDate - args.ingredient.purchasedAt.v) \div msPerDay
        IN  /\ result.daysRemaining = Fin(L - k)
            /\ result.spoilageStatus = StatusFor(L - k, args.nearExpiryThresholdDays.v)

\* C17: k whole days (k times 24 hours) after the purchase of an ingredient
\* with shelf life L, daysRemaining is L - k when the UTC offset of the host's
\* local time at the expiry date is not below the one at the purchase, and
\* L - k + 1 when the clocks have been set back an hour in between; the status
\* is Expired when daysRemaining < 0, NearExpiry when it is 0..threshold, Fresh
\* above.
C17_WholeDaysCountDownInLocalTime ==
    WholeDaysAfterPurchase =>
        LET L == args.ingredient.shelfLifeDays.v
            T == args.ingredient.purchasedAt.v
            k == (args.currentDate - T) \div msPerDay
            setBack == LocalOffset(result.expiryDate.v) < LocalOffset(T)
            days == IF setBack THEN L - k + 1 ELSE L - k
        IN  /\ result.daysRemaining = Fin(days)
            /\ result.spoilageStatus = StatusFor(days, args.nearExpiryThresholdDays.v)

\* C17: four whole days after its purchase an ingredient with a shelf life of
\* 7 days has 3 days remaining and, with the default threshold, is NearExpiry
C17_Witness ==
    /\ WholeDaysAfterPurchase
    /\ args.ingredient.shelfLifeDays = Fin(7)
    /\ args.currentDate - args.ingredient.purchasedAt.v = 4 * msPerDay
    /\ args.nearExpiryThresholdDays = Fin(DEFAULT_NEAR_EXPIRY_THRESHOLD_DAYS)
    /\ result.daysRemaining = Fin(3)
    /\ result.spoilageStatus = "NearExpiry"

\* The evaluation returned an expiry date that is a valid date
Dated == Evaluated /\ result.expiryDate.k = "fin"

\* C18: daysRemaining is the least integer n with expiryDate - now <= n days:
\* a remaining duration d with n - 1 < d <= n days reports n, so a strictly
\* positive remainder shorter than one day reports 1.
C18_DaysRemainingIsTheCeiling ==
    Dated =>
        LET d == result.expiryDate.v - args.currentDate
            n == result.daysRemaining.v
        IN  /\ result.daysRemaining.k = "fin"
            /\ (n - 1) * msPerDay < d
            /\ d <= n * msPerDay
            /\ (0 < d /\ d < msPerDay) => n = 1

\* C18: less than an hour before the expiry date the engine reports one day
C18_Witness ==
    /\ Dated
    /\ 0 < result.expiryDate.v - args.currentDate
    /\ result.expiryDate.v - args.currentDate < msPerHour
    /\ result.daysRemaining = Fin(1)

\* C19: an evaluation of a valid ingredient at a reference instant strictly
\* later than the expiry date it returns has status Expired.
C19_PastExpiryIsExpired ==
    (Dated /\ ValidIngredient /\ args.currentDate > result.expiryDate.v) =>
        result.spoilageStatus = "Expired"

\* The place of a status in the order Fresh, NearExpiry, Expired
StatusRank(status) ==
    CASE status = "Fresh" -> 1
      [] status = "NearExpiry" -> 2
      [] status = "Expired" -> 3
      [] OTHER -> 0

\* C20: of two evaluations of the same ingredient with the same threshold, the
\* second at the same or a later reference instant, the second reports no
\* more days remaining than the first and a status that is not earlier in the
\* order Fresh, NearExpiry, Expired; it is Unknown exactly when the first is.
C20_StatusOnlyMovesForward ==
    (Evaluated /\ previous # Undefined) =>
        /\ ~NumLess(previous.daysRemaining, result.daysRemaining)
        /\ StatusRank(result.spoilageStatus) >= StatusRank(previous.spoilageStatus)
        /\ result.spoilageStatus = "Unknown" <=> previous.spoilageStatus = "Unknown"

\* C20: an ingredient evaluated as NearExpiry has been evaluated again later,
\* with fewer days remaining, as Expired
C20_Witness ==
    /\ Evaluated
    /\ previous # Undefined
    /\ previous.spoilageStatus = "NearExpiry"
    /\ result.spoilageStatus = "Expired"
    /\ NumLess(result.daysRemaining, previous.daysRemaining)

C22_SortedByUrgency ==
    sorted # Undefined =>
        LET in == enriched.v
            out == sorted.v
            n == Len(in)
        IN  /\ Len(out) = n
            /\ \E p \in Permutations(1..n) : \A i \in 1..n : out[i] = in[p[i]]
            /\ in = enrichAllWithSpoilage(rawIngredients, clock)
            /\ \A i, j \in 1..n : i < j =>
                /\ statusOrder(out[i].spoilageStatus) <= statusOrder(out[j].spoilageStatus)
                /\ out[i].spoilageStatus = out[j].spoilageStatus =>
                    ~NumLess(out[j].daysRemaining, out[i].daysRemaining)

\* C23: the summary has exactly the keys Fresh, NearExpiry, Expired and
\* Unknown, for an empty list too; the value of each is the number of entries
\* of the list with that status, and the four values add up to the length of
\* the list.
C23_SummaryCountsEveryStatus ==
    summary # Undefined =>
        LET list == enriched.v
            counts == summary.v
        IN  /\ DOMAIN counts = {"Fresh", "NearExpiry", "Expired", "Unknown"}
            /\ \A status \in DOMAIN counts :
                counts[status] =
                    Cardinality({i \in 1..Len(list) : list[i].spoilageStatus = status})
            /\ counts["Fresh"] + counts["NearExpiry"] + counts["Expired"]
                   + counts["Unknown"] = Len(list)

C23_Witness ==
    /\ summary # Undefined
    /\ Len(enriched.v) = 3
    /\ summary.v["Unknown"] = 1
    /\ summary.v["Expired"] = 1
    /\ summary.v["NearExpiry"] = 1

\* C23, the empty list: all four keys are present with the value 0
C23_EmptyWitness ==
    /\ summary # Undefined
    /\ enriched.v = <<>>
    /\ summary.v = [status \in {"Fresh", "NearExpiry", "Expired", "Unknown"} |-> 0]

\* The audit record is null for a failure result, and for a success result
\* carries the tag, the id and quantity of the input and the stocks of the
\* result
AuditMirrors ==
    audit # Undefined =>
        IF ~audit.result.success THEN audit.record = Null
        ELSE /\ audit.record # Null
             /\ audit.record.actionType = "BUY_INGREDIENT"
             /\ audit.record.ingredientId = audit.input.ingredientId
             /\ audit.record.purchasedQty = audit.input.purchasedQty
             /\ audit.record.previousStockQty = audit.result.previousStockQty
             /\ audit.record.newStockQty = audit.result.newStockQty

\* C24: whenever an audit record is derived from the input and the result of a
\* buy, the table, the running transaction and the calls are left as they
\* were; the derivation gives null for a failure result, and for a success
\* result a record tagged BUY_INGREDIENT with the id and quantity of the input
\* and the two stocks of the result, whose difference is the quantity.
C24_AuditOnlyOfSuccess ==
    [][audit' # audit =>
          /\ store' = store
          /\ work' = work
          /\ txOwner' = txOwner
          /\ calls' = calls
          /\ AuditMirrors'
          /\ audit'.record # Null =>
                NumSub(audit'.record.newStockQty, audit'.record.previousStockQty)
                    = audit'.record.purchasedQty]_vars

\* C24, amended: as above, but the new stock of the record is the sum
\* previousStockQty + purchasedQty as the number type rounds it, so that the
\* difference of the two stocks is the quantity only when that sum is exact.
C24_AuditOfSuccessHoldsTheSum ==
    [][audit' # audit =>
          /\ store' = store
          /\ work' = work
          /\ txOwner' = txOwner
          /\ calls' = calls
          /\ AuditMirrors'
          /\ audit'.record # Null =>
                /\ audit'.record.newStockQty =
                      NumAdd(audit'.record.previousStockQty, audit'.record.purchasedQty)
                /\ audit'.record.previousStockQty.k = "fin" =>
                      NumSub(audit'.record.newStockQty, audit'.record.previousStockQty)
                          = audit'.record.purchasedQty]_vars

\* C24: the record of a buy of 2 on a stock of 2, derived after another buy
\* has failed
C24_Witness ==
    /\ audit # Undefined
    /\ audit.result.success
    /\ audit.record # Null
    /\ audit.record.previousStockQty = Fin(2)
    /\ audit.record.newStockQty = Fin(4)
    /\ \E c \in Calls : DoneBuy(c) /\ ~calls[c].result.success

\* Record i has been bought: a buy of it is among the first n committed buys
Bought(i, n) == \E m \in 1..n : hist[m].id = i

\* C25: in every state a stored ingredient has purchasedAt null exactly when
\* no buy of it has committed since it was created; a step that changes the
\* purchasedAt of a stored ingredient is the commit of a buy of it; a record
\* enters the table with purchasedAt null.
C25_PurchasedAtSetOnlyByBuy ==
    [][\A i \in Ids :
        /\ store'[i] # Undefined =>
            (store'[i].purchasedAt = Null <=> ~Bought(i, Len(hist))')
        /\ (store[i] # Undefined /\ store'[i] # Undefined
                /\ store'[i].purchasedAt # store[i].purchasedAt) =>
            /\ Len(hist') = Len(hist) + 1
            /\ hist'[Len(hist')].id = i
            /\ store'[i].purchasedAt # Null
        /\ (store[i] = Undefined /\ store'[i] # Undefined) =>
            store'[i].purchasedAt = Null]_vars

\* C25: an update has written to an ingredient bought before, which still has
\* its purchase date
C25_Witness ==
    \E c \in Calls :
        /\ calls[c].op = "update"
        /\ calls[c].pc = "done"
        /\ calls[c].wrote
        /\ calls[c].txPre[calls[c].id].purchasedAt # Null
        /\ store[calls[c].id] # Undefined
        /\ store[calls[c].id].purchasedAt = calls[c].txPre[calls[c].id].purchasedAt
        /\ store[calls[c].id].stockQty = Fin(-1)

\* The ids of the records a table holds
Stored(table) == {i \in Ids : table[i] # Undefined}

\* C27: between the table a successful buy found when its transaction started
\* and the table it committed, the target record differs in stockQty and
\* purchasedAt only, keeping its id, name, unit and shelfLifeDays; every other
\* record is the same and the table holds as many records as before.
C27_BuyChangesTwoFieldsOnly ==
    \A c \in Calls : (DoneBuy(c) /\ calls[c].result.success) =>
        LET id == calls[c].id
            before == calls[c].txPre
            after == calls[c].post
        IN  /\ id \in Stored(before) \cap Stored(after)
            /\ \A f \in {"id", "name", "unit", "shelfLifeDays"} :
                    after[id][f] = before[id][f]
            /\ DOMAIN after[id] = DOMAIN before[id]
            /\ \A j \in Ids \ {id} : after[j] = before[j]
            /\ Cardinality(Stored(after)) = Cardinality(Stored(before))

\* C27: a buy has succeeded on a table of two records, and changed both the
\* stock and the purchase date of its target
C27_Witness ==
    \E c \in Calls :
        /\ DoneBuy(c)
        /\ calls[c].result.success
        /\ Cardinality(Stored(calls[c].txPre)) = 2
        /\ calls[c].post[calls[c].id].stockQty # calls[c].txPre[calls[c].id].stockQty
        /\ calls[c].post[calls[c].id].purchasedAt
                # calls[c].txPre[calls[c].id].purchasedAt

\* The last evaluation is the reading of a freshly bought ingredient
ReadFresh ==
    /\ Evaluated
    /\ args.ingredient # Undefined
    /\ \E c \in Calls :
        /\ DoneBuy(c)
        /\ calls[c].result.success
        /\ args.ingredient = calls[c].result.updatedIngredient

\* C26 as stated: an ingredient with shelf life L read at the instant the buy
\* of it committed has daysRemaining = L and is NearExpiry when L <= 3, Fresh
\* when L > 3.
C26_FreshlyBoughtHasItsShelfLife ==
    ReadFresh =>
        LET L == args.ingredient.shelfLifeDays.v
        IN  /\ result.daysRemaining = Fin(L)
            /\ result.spoilageStatus = IF L <= 3 THEN "NearExpiry" ELSE "Fresh"

\* C26, amended: the ingredient read at the instant the buy of it committed is
\* never Unknown and never Expired; daysRemaining is L when the UTC offset of
\* the host's local time at the expiry date is not below the one at the
\* purchase, and L + 1 when the clocks have been set back in between; the
\* status is NearExpiry when daysRemaining <= 3 and Fresh when it is above.
C26_FreshlyBoughtIsNotExpired ==
    ReadFresh =>
        LET L == args.ingredient.shelfLifeDays.v
            T == args.ingredient.purchasedAt.v
            setBack == LocalOffset(result.expiryDate.v) < LocalOffset(T)
            days == IF setBack THEN L + 1 ELSE L
        IN  /\ result.spoilageStatus \notin {"Unknown", "Expired"}
            /\ result.daysRemaining = Fin(days)
            /\ result.spoilageStatus = IF days <= 3 THEN "NearExpiry" ELSE "Fresh"

\* C26: an ingredient with a shelf life of 3 days, never bought before, read a
\* millisecond after the purchase instant of its first buy: 3 days, NearExpiry
C26_Witness ==
    /\ ReadFresh
    /\ args.ingredient.shelfLifeDays = Fin(3)
    /\ initial[1].purchasedAt = Null
    /\ args.currentDate = args.ingredient.purchasedAt.v + 1
    /\ result.daysRemaining = Fin(3)
    /\ result.spoilageStatus = "NearExpiry"

\* C28: once a deleteIngredient has returned true the table holds no record
\* under its id, whatever update or buy of that id was in flight; an update
\* that found the record but whose write found it deleted changes nothing and
\* returns null, and a buy whose transaction found it deleted changes nothing
\* and returns the failure 'Ingredient not found' (store failures aside).
C28_DeletedStaysDeleted ==
    /\ \A d \in Calls :
        (Done(d) /\ calls[d].op = "delete" /\ calls[d].result = Bool(TRUE)) =>
            TableGet(store, calls[d].id) = Undefined
    /\ \A c \in Calls :
        (Done(c) /\ UpdateFound(c) /\ ~calls[c].faulted
            /\ calls[c].txPre[calls[c].id] = Undefined) =>
            /\ calls[c].outcome = "returned"
            /\ calls[c].result = Null
            /\ ~calls[c].wrote
    /\ \A c \in Calls :
        (DoneBuy(c) /\ ~calls[c].faulted /\ QtyError(calls[c].purchasedQty) = Null
            /\ calls[c].pre[calls[c].id] # Undefined
            /\ calls[c].txPre[calls[c].id] = Undefined) =>
            /\ calls[c].result = BuyFailure(Str("Ingredient not found"))
            /\ calls[c].post = calls[c].txPre
            /\ ~calls[c].wrote

\* C28: an update found the record, a delete then removed it and returned
\* true, and the update, writing after the delete, returned null
C28_Witness ==
    \E c, d \in Calls :
        /\ Done(c) /\ UpdateFound(c)
        /\ calls[c].txPre[calls[c].id] = Undefined
        /\ calls[c].result = Null
        /\ Done(d) /\ calls[d].op = "delete" /\ calls[d].id = calls[c].id
        /\ calls[d].result = Bool(TRUE)
        /\ calls[d].wrote
        /\ store[calls[c].id] = Undefined

\* C28: a buy was issued while the record was stored, a delete removed it
\* before the transaction of the buy started, and the buy failed
C28_BuyWitness ==
    \E c, d \in Calls :
        /\ DoneBuy(c)
        /\ calls[c].pre[calls[c].id] # Undefined
        /\ calls[c].result = BuyFailure(Str("Ingredient not found"))
        /\ Done(d) /\ calls[d].op = "delete" /\ calls[d].id = calls[c].id
        /\ calls[d].result = Bool(TRUE)
        /\ store[calls[c].id] = Undefined

\* C29: of the deleteIngredient calls on one id that have returned, at most
\* one has returned true, and a call that returned true has removed the
\* record.
C29_OneDeleteReturnsTrue ==
    /\ \A c, d \in Calls :
        (/\ c # d
         /\ Done(c) /\ calls[c].op = "delete" /\ calls[c].outcome = "returned"
         /\ Done(d) /\ calls[d].op = "delete" /\ calls[d].outcome = "returned"
         /\ calls[c].id = calls[d].id) =>
            ~(calls[c].result = Bool(TRUE) /\ calls[d].result = Bool(TRUE))
    /\ \A c \in Calls :
        (Done(c) /\ calls[c].op = "delete" /\ calls[c].outcome = "returned"
            /\ calls[c].result = Bool(TRUE)) => calls[c].wrote

\* The handler in slot c finishes in this step
Finishes(c) == handlers[c].pc = "awaiting" /\ handlers'[c].pc = "finished"

\* C30: a handler that has set isLoading and whose action has settled, by
\* resolving with success, resolving with a failure result or rejecting, sets
\* isLoading back to false when it resumes, and it does resume; the buy
\* handler closes the modal exactly when buyIngredient resolved with
\* success = true, and leaves the modal as it is on a failure result.
C30_HandlersResetIsLoading ==
    /\ [][\A c \in Calls : Finishes(c) =>
            /\ isLoading /\ ~isLoading'
            /\ handlers[c].kind = "buy" =>
                /\ handlers'[c].closed <=>
                        (calls[c].outcome = "returned" /\ calls[c].result.success)
                /\ handlers'[c].closed => modalState' = NoModal
                /\ ~handlers'[c].closed => modalState' = modalState]_vars
    /\ \A c \in Calls :
        (handlers[c].pc = "awaiting" /\ calls[c].pc = "done")
            ~> (handlers[c].pc = "finished" /\ ~isLoading)

\* C30: the buy handler has finished on a failure result of a buy with a valid
\* quantity: isLoading is false again and the buy modal is still open
C30_Witness ==
    \E c \in Calls :
        /\ handlers[c].kind = "buy"
        /\ handlers[c].pc = "finished"
        /\ ~handlers[c].closed
        /\ calls[c].purchasedQty = Fin(2)
        /\ ~calls[c].result.success
        /\ modalState.type = "buy"
        /\ ~isLoading

\* C30: the edit handler has finished after updateIngredient rejected
C30_ThrowWitness ==
    \E c \in Calls :
        /\ handlers[c].kind = "edit"
        /\ handlers[c].pc = "finished"
        /\ calls[c].outcome = "rejected"
        /\ ~handlers[c].closed
        /\ ~isLoading

\* C30: the buy handler has finished on a success and closed the modal
C30_SuccessWitness ==
    \E c \in Calls :
        /\ handlers[c].kind = "buy"
        /\ handlers[c].pc = "finished"
        /\ handlers[c].closed
        /\ calls[c].result.success
        /\ modalState = NoModal
        /\ ~isLoading

====
